---- MODULE Spec2Model ----
(***************************************************************************)
(* Model of the real-estate agent: the message handlers of uagent_bridge.py *)
(* on top of the workflow of workflow.py (intent parser, tool executor with *)
(* its process-wide search cooldown, planner loop, in-memory sessions).     *)
(*                                                                          *)
(* A run slot is one handler coroutine on the asyncio event loop.  A        *)
(* coroutine gives up the loop only at a real suspension point: the         *)
(* asyncio.to_thread calls around fetch_listings and create_listings_sheet. *)
(* The Anthropic client calls are synchronous, so everything between two    *)
(* suspension points of a coroutine runs without interleaving.              *)
(*                                                                          *)
(* The OAuth device flow of sheets.py (_get_user_credentials and its two    *)
(* JSON stores) is explored on its own, by NextSheets: its calls run in     *)
(* threads and interleave at every file operation and request.              *)
(*                                                                          *)
(* Strings are modelled as records [kind, n, loc, s] (see Str) so that      *)
(* formatted messages keep the values they were built from.  Python's None  *)
(* for an Optional[int] or a DataFrame is the integer NoneInt, and None for *)
(* a string field is the token "None".                                      *)
(***************************************************************************)
EXTENDS Integers, Sequences, FiniteSets, TLC

\* ------------------------------------------------------------------ bounds
\* Largest value, in seconds, the clock (time.time()) takes in the model.
MaxTime == 10
\* Number of messages the agent receives in one behaviour.
MaxRequests == 2
\* Planner turns, over all runs of a behaviour, that ask for search_listings or
\* create_sheet; once they are used up a planner that goes on asking for tools
\* asks for one the executor does not know.
MaxToolTurns == 2

\* Largest value, in seconds, the clock takes while the OAuth device flow of
\* sheets.py is explored.
MaxAuthTime == 1000
\* Number of _get_user_credentials calls in one behaviour.
MaxCalls == 3
\* Number of device flows Google's device endpoint hands out in one behaviour.
MaxFlows == 2
\* The polling interval up to which the token endpoint still answers slow_down.
MaxInterval == 5

\* --------------------------------------------------------- program constants
SEARCH_COOLDOWN_SECONDS == 8
\* time.time() is read in hundredths of a second, one digit finer than the
\* tenth that round(..., 1) keeps.
TicksPerSecond == 100
\* The cooldown in clock ticks.
Cooldown == SEARCH_COOLDOWN_SECONDS * TicksPerSecond
\* A safety cap that is one iteration too generous.
LooseCap == 8 + 1
max_iterations == 8
NoneInt == -1

Runs == {"h1", "h2"}
Senders == {"alice"}
\* msg.user_id values: left empty, blank, or set to another identity.
MsgUserIds == {"", " ", "bob"}
SheetUrl == "https://sheet/abc"

\* ------------------------------------------------------------------ strings
\* A formatted message: its template (kind) and the values put into it.
Str(kind, n, loc, s) == [kind |-> kind, n |-> n, loc |-> loc, s |-> s]
EmptyStr == Str("empty", 0, "", "")
Text(s) == IF s = "" THEN EmptyStr ELSE Str("text", 0, "", s)

\* str.strip() on the message fields the model draws.
Strip(s) == IF s = " " THEN ""
            ELSE IF s = " Google Auth " THEN "Google Auth"
            ELSE s

\* str.lower() on the message fields the model draws.
Lower(s) == IF s = "Google Auth" THEN "google auth" ELSE s

AuthInstr == "Google authorization required for sheet creation. 1) Open ... 2) Enter code ..."
AuthConnected == "Google is already connected for this user."
ClarifyText == "Could not determine a location. Please include a city, state, or zip code."
PlainSummary == "Found 3 listings; sheet attached."
AuthSummary == "Found 3 listings. Google authorization required for sheet creation."
ParseError == "Expecting value: line 1 column 1 (char 0)"
PlannerError == "anthropic.APIConnectionError"
FetchError == "scrape_property failed"
SummaryError == "cannot convert float NaN to integer"
ExportError == "gspread APIError"
OAuthConfigError == "Missing OAuth client config."

\* "Google authorization required" in x
ContainsAuthRequired(x) ==
    /\ x.kind \in {"text", "failed"}
    /\ x.s \in {AuthInstr, AuthSummary}

\* x.startswith("Google is already connected")
StartsWithConnected(x) == x.kind = "text" /\ x.s = AuthConnected

\* dict.get(key, default) on a JSON object modelled as a function on its keys.
Get(d, k, default) == IF k \in DOMAIN d THEN d[k] ELSE default

\* The empty JSON object {}.
EmptyObj == [x \in {} |-> x]

\* ------------------------------------------------------------ search criteria
SearchInput(location, listing_type, min_price, past_days) ==
    [location |-> location, listing_type |-> listing_type,
     min_price |-> min_price, past_days |-> past_days]

\* The JSON objects the parsing model may answer (text that is no JSON makes
\* json.loads raise, see ParseFails): one with every field, and one without a
\* location whose listing_type is an explicit null.
ParserOutputs ==
    { [location |-> "Austin, TX", listing_type |-> "for_rent",
       min_price |-> 500, past_days |-> 7],
      [listing_type |-> "None"] }

\* parse_search_intent after json.loads: the fields absent from the model's
\* output take their defaults.
ParsedCriteria(parsed) ==
    SearchInput(Get(parsed, "location", ""),
                Get(parsed, "listing_type", "for_sale"),
                Get(parsed, "min_price", NoneInt),
                Get(parsed, "past_days", 30))

\* ----------------------------------------------------------------- planner
TextBlock(t) == [type |-> "text", text |-> t]
ToolUse(id, name, input) == [type |-> "tool_use", id |-> id, name |-> name, input |-> input]

\* Overrides the planner may pass to search_listings (besides none at all).
Moved == [location |-> "Miami, FL", listing_type |-> "sold"]

\* A planner turn that asks for a tool the executor does not know.
FillerTurn == <<ToolUse("t1", "lookup_schools", EmptyObj)>>

\* Content of the planner turns that ask for tools.
ToolTurns ==
    { <<ToolUse("t1", "search_listings", EmptyObj)>>,
      <<ToolUse("t1", "search_listings", Moved)>>,
      <<ToolUse("t1", "create_sheet", EmptyObj)>>,
      FillerTurn,
      <<TextBlock("Searching."), ToolUse("t1", "search_listings", EmptyObj),
        ToolUse("t2", "create_sheet", EmptyObj)>> }

\* Content of the planner turns that end the conversation.
FinalTurns ==
    { <<>>, <<TextBlock("")>>, <<TextBlock(PlainSummary)>>, <<TextBlock(AuthSummary)>> }

Response(stop_reason, content) == [stop_reason |-> stop_reason, content |-> content]
NoResponse == Response("none", <<>>)

PlannerResponses ==
    {Response("end_turn", c) : c \in FinalTurns}
      \cup {Response("tool_use", c) : c \in ToolTurns}
      \cup {Response("max_tokens",
                      <<TextBlock(PlainSummary), ToolUse("t1", "search_listings", EmptyObj)>>)}

\* The tool_use blocks of a planner turn, in order (workflow.py:341-342).
ToolCalls(content) == SelectSeq(content, LAMBDA b : b.type = "tool_use")

\* for block in response.content: if hasattr(block, "text"): final_summary = block.text
RECURSIVE LastText(_, _)
LastText(content, acc) ==
    IF content = <<>> THEN acc
    ELSE LastText(Tail(content),
                  IF Head(content).type = "text" THEN Head(content).text ELSE acc)

\* The summary taken from any turn that asks for no tool.
FinalTextAnyStop(response, final_summary) ==
    IF response.stop_reason # "tool_use"
    THEN LastText(response.content, final_summary)
    ELSE final_summary

\* final_summary after the planner's turn: the last text of an end_turn
\* response; any other stop reason leaves it as it was.
FinalText(response, final_summary) ==
    IF response.stop_reason = "end_turn"
    THEN LastText(response.content, final_summary)
    ELSE final_summary

\* ------------------------------------------------------------ tool executor

\* The gate with a cooldown one tick too short.
RateLimitedShort(last, now) ==
    last > 0 /\ now - last < Cooldown - TicksPerSecond

\* The gate that also refuses a search made exactly one cooldown after the last.
RateLimitedInclusive(last, now) ==
    last > 0 /\ now - last <= Cooldown

\* The rate gate of search_listings: a search passed the gate before and less
\* than the cooldown has elapsed since its stamp.
RateLimited(last, now) ==
    last > 0 /\ now - last < Cooldown

\* The gate that leaves the stamp to be written after the collaborator call.
StampAfterCall(last, stamp) == last

\* The gate that stamps only the first search of the process.
StampFirstOnly(last, stamp) == IF last = 0 THEN stamp ELSE last

\* _last_search_time = time.time(), written before fetch_listings is awaited.
StampBeforeCall(last, stamp) == stamp

\* round(x, 1) for x >= 0 given in ticks: the nearest tenth of a second, a tie
\* going to the even tenth.
Round1(x) ==
    LET tenth == TicksPerSecond \div 10
        q     == x \div tenth
        rest  == x % tenth
    IN IF 2 * rest > tenth \/ (2 * rest = tenth /\ q % 2 = 1)
       THEN (q + 1) * tenth
       ELSE q * tenth

\* The wait that reports the time elapsed instead of the time left.
WaitForElapsed(last, now) == Round1(now - last)

\* wait = round(SEARCH_COOLDOWN_SECONDS - elapsed, 1), in ticks.
WaitFor(last, now) == Round1(Cooldown - (now - last))

\* SearchInput built from the planner's tool_input: only location falls back to
\* the run's criteria, every other field to its default.
MergedSearch(tool_input, st) ==
    SearchInput(Get(tool_input, "location", st.search.location),
                Get(tool_input, "listing_type", "for_sale"),
                Get(tool_input, "min_price", NoneInt),
                Get(tool_input, "past_days", 30))

\* The criteria that are rebuilt before the gate is consulted.
GatedSearchAlways(tool_input, st, limited) == MergedSearch(tool_input, st)

\* state.search after the gate: the rate_limited return comes before the
\* criteria are built and assigned, a call that passes assigns them.
GatedSearch(tool_input, st, limited) ==
    IF limited THEN st.search ELSE MergedSearch(tool_input, st)

\* The precondition that forgets the empty DataFrame.
NoListingsNoneOnly(st) == st.df = NoneInt

\* create_sheet's precondition fails: state.df is None or empty.
NoListings(st) == st.df = NoneInt \/ st.df = 0

\* The run state that starts out with a result set and a sheet.
RunStateKept(search, user_id) ==
    [search |-> search, user_id |-> user_id, df |-> 3, sheet_url |-> SheetUrl,
     num_results |-> 3, last_error |-> ""]

\* _RunState(search=search, user_id=user_id); df is NoneInt (None), 0 (an empty
\* DataFrame) or the number of rows.
RunState(search, user_id) ==
    [search |-> search, user_id |-> user_id, df |-> NoneInt, sheet_url |-> "",
     num_results |-> 0, last_error |-> ""]

\* Tool outcomes, the JSON objects handed back to the planner.
RateLimitedOutcome(wait) == [status |-> "rate_limited", wait |-> wait]
NoResultsOutcome == [status |-> "no_results", num_results |-> 0]
SearchSuccessOutcome(n) == [status |-> "success", num_results |-> n]
SearchErrorOutcome(e) == [status |-> "error", error |-> e, num_results |-> 0]
NoDataOutcome == [status |-> "error", error |-> "No listings data"]
SheetSuccessOutcome(url, n) == [status |-> "success", sheet_url |-> url, num_rows |-> n]
AuthRequiredOutcome(e) == [status |-> "auth_required", error |-> e]
SheetErrorOutcome(e) == [status |-> "error", error |-> e]
UnknownToolOutcome(name) == [error |-> "Unknown tool", tool |-> name]

ToolResult(id, outcome) ==
    [type |-> "tool_result", tool_use_id |-> id, content |-> outcome]

\* ------------------------------------------------------------- conversation
\* A conversation turn: who speaks, what kind of turn it is, and the request
\* (by its serial number) whose run appended it.
Turn(role, kind, by) == [role |-> role, kind |-> kind, by |-> by]

\* The ids of a sequence of tool_use or tool_result blocks, in order.
CallIds(calls) == [i \in DOMAIN calls |-> calls[i].id]
ResultIds(results) == [i \in DOMAIN results |-> results[i].tool_use_id]

\* The user turn that hands the tool_results back; of its content the turn
\* keeps whether one of the results reports a sheet (the ids the results
\* answer are kept, for the latest such turn of a run, in obs).
ResultsTurn(by, results) ==
    [role |-> "user", kind |-> "tool_results", by |-> by,
     sheet |-> \E i \in DOMAIN results : "sheet_url" \in DOMAIN results[i].content]

\* The seed that drops the prior conversation.
SeedMessagesFresh(prior, by) == <<Turn("user", "prompt", by)>>

\* messages = list(prior_messages or []); messages.append(user prompt)
SeedMessages(prior, by) == Append(prior, Turn("user", "prompt", by))

\* ------------------------------------------------------------------ results
WorkflowResult(sheet_url, summary, num_results, session_id) ==
    [sheet_url |-> sheet_url, summary |-> summary,
     num_results |-> num_results, session_id |-> session_id]
NoResult == WorkflowResult("", EmptyStr, 0, "None")

\* run_workflow's early return when search.location is empty.
NoLocationResult ==
    WorkflowResult("", Text(ClarifyText), 0, "None")

\* The summary without the fallback.
FinalSummaryNoFallback(final_summary, st, search) == Text(final_summary)

\* The fallback that looks at the recorded error before the sheet.
FinalSummaryErrorFirst(final_summary, st, search) ==
    IF final_summary # "" THEN Text(final_summary)
    ELSE IF st.last_error # ""
         THEN Str("failed", st.num_results, search.location, st.last_error)
    ELSE IF st.sheet_url # "" /\ st.num_results > 0
         THEN Str("found", st.num_results, search.location, st.sheet_url)
    ELSE Str("none", 0, search.location, "")

\* The summary of run_agent_loop: the planner's final text, or the fallback
\* synthesized from the run state.
FinalSummary(final_summary, st, search) ==
    IF final_summary # "" THEN Text(final_summary)
    ELSE IF st.sheet_url # "" /\ st.num_results > 0
         THEN Str("found", st.num_results, search.location, st.sheet_url)
    ELSE IF st.last_error # ""
         THEN Str("failed", st.num_results, search.location, st.last_error)
    ELSE Str("none", 0, search.location, "")

LoopResult(final_summary, st, search, user_id) ==
    WorkflowResult(st.sheet_url, FinalSummary(final_summary, st, search),
                   st.num_results, user_id)

\* ----------------------------------------------------------------- handlers
SearchResponse(sheet_url, summary, num_results, session_id, error) ==
    [sheet_url |-> sheet_url, summary |-> summary, num_results |-> num_results,
     session_id |-> session_id, error |-> error]

\* _resolve_user_id
ResolveUserId(message_user_id, sender) ==
    IF Strip(message_user_id) # "" THEN Strip(message_user_id) ELSE sender

\* normalized_query in {"/google-auth", "google auth", "connect google"}
IsAuthQuery(query) ==
    Lower(Strip(query)) \in {"/google-auth", "google auth", "connect google"}

\* result.session_id or user_id
SessionIdOr(session_id, user_id) ==
    IF session_id \in {"None", ""} THEN user_id ELSE session_id

\* The reply of handle_search to a workflow result.
SearchReply(result, user_id) ==
    SearchResponse(result.sheet_url, result.summary, result.num_results,
                   SessionIdOr(result.session_id, user_id),
                   IF result.sheet_url = "" /\ ContainsAuthRequired(result.summary)
                   THEN result.summary ELSE EmptyStr)

\* The reply of handle_followup to a workflow result.
FollowUpReply(result, user_id) ==
    SearchResponse(result.sheet_url, result.summary, result.num_results,
                   SessionIdOr(result.session_id, user_id), EmptyStr)

\* The error reply that leaves session_id at its default.
ErrorReplyNoSession(exc, user_id) ==
    SearchResponse("", EmptyStr, 0, "", Text(exc))

\* The reply of either handler to an exception of the workflow.
ErrorReply(exc, user_id) ==
    SearchResponse("", EmptyStr, 0, user_id, Text(exc))

\* The reply of handle_search to the authorization query.
AuthReply(instructions, user_id) ==
    SearchResponse("", Text(instructions), 0, user_id,
                   IF StartsWithConnected(Text(instructions))
                   THEN EmptyStr ELSE Text(instructions))

\* ChatAcknowledgement(acknowledged_msg_id=msg.msg_id)
ChatAcknowledgement(msg_id) == [type |-> "ack", acknowledged_msg_id |-> msg_id]

\* ChatMessage(content=[TextContent(text=...)]): the text is a body, followed by
\* "Results sheet: <url>" when sheet is not empty.
ChatMessage(body, sheet) == [type |-> "chat", body |-> body, sheet |-> sheet]

ChatHint == "Please send a search query, e.g. '3 bed house for sale in Austin TX under $400k'"
NoResultsText == "No results found."

\* The substantive reply of handle_chat to a workflow result.
ChatReply(result) ==
    IF result.sheet_url # ""
    THEN ChatMessage(result.summary, result.sheet_url)
    ELSE ChatMessage(IF result.summary = EmptyStr THEN Text(NoResultsText)
                     ELSE result.summary, "")

\* The substantive reply of handle_chat to an exception of the workflow.
ChatErrorReply(exc) == ChatMessage(Str("sorry", 0, "", exc), "")

\* handle_chat forgets the acknowledgement.
AckSkipped(sent, sender, msg_id) == sent

\* await ctx.send(sender, ChatAcknowledgement(...)), the first statement of
\* handle_chat.
AckFirst(sent, sender, msg_id) ==
    Append(sent, [to |-> sender, msg |-> ChatAcknowledgement(msg_id)])

\* ------------------------------------------------- sheets.py: OAuth stores
\* The threads that can be inside _get_user_credentials at once: the worker
\* threads asyncio.to_thread starts for create_listings_sheet, and the event
\* loop's thread, on which handle_search calls get_google_auth_message.
Threads == {"w1", "w2"}
SheetUsers == {"alice", "bob"}

\* response.get("expires_in", 900) and response.get("interval", 5) of
\* _start_device_flow, with Google's defaults.
ExpiresIn == 900
Interval == 5

\* dict.get(user_id) on a loaded store: None when the user has no entry.
NoToken == [token |-> NoneInt]
NoFlow == [device_code |-> NoneInt, user_code |-> NoneInt, expires_at |-> 0, interval |-> 0]
StoreGet(store, u, none) == IF u \in DOMAIN store THEN store[u] ELSE none
\* store[user_id] = value
StorePut(store, u, value) == [x \in DOMAIN store \cup {u} |-> IF x = u THEN value ELSE store[x]]
\* store.pop(user_id, None)
StorePop(store, u) == [x \in DOMAIN store \ {u} |-> store[x]]

\* The flow _start_device_flow builds from the n-th answer of the device
\* endpoint (verification_url and expires_in are not read again and left out).
DeviceFlow(n, now) ==
    [device_code |-> n, user_code |-> n, expires_at |-> now + ExpiresIn, interval |-> Interval]

\* now >= int(flow.get("expires_at", 0)), and the same test always true.
FlowExpiredAlways(flow, now) == TRUE
FlowExpired(flow, now) == now >= flow.expires_at

\* _credential_info_from_token_response: the token granted for a device code.
\* The stored info carries no expiry, so Credentials.valid holds for it and
\* the refresh and the removal of a saved token (l.170-177) are not reached.
CredentialInfo(flow) == [token |-> flow.device_code]

\* What the token endpoint can answer to a poll ("" is a grant).
PendingErrors == {"authorization_pending", "slow_down"}
RestartErrors == {"access_denied", "expired_token", "invalid_grant"}
PollAnswers(flow) ==
    {"", "invalid_client"} \cup RestartErrors
    \cup (IF flow.interval <= MaxInterval THEN PendingErrors
          ELSE PendingErrors \ {"slow_down"})

\* What a call ends with: credentials, GoogleAuthRequiredError carrying the
\* user code of _build_auth_required_message (after the "denied or expired"
\* line or not), or RuntimeError.
NoOutcome == [kind |-> "none", user_code |-> NoneInt, denied |-> FALSE]
Creds == [kind |-> "creds", user_code |-> NoneInt, denied |-> FALSE]
AuthRequired(flow, denied) ==
    [kind |-> "auth_required", user_code |-> flow.user_code, denied |-> denied]
OAuthFailed == [kind |-> "error", user_code |-> NoneInt, denied |-> FALSE]

\* The locals of one _get_user_credentials call; read, answer and started
\* are history: the flow device_store.get returned, the token endpoint's
\* answer, and whether _start_device_flow handed out a flow to this call.
IdleCall ==
    [pc |-> "idle", user_id |-> "", token_store |-> EmptyObj,
     device_store |-> EmptyObj, flow |-> NoFlow, now |-> 0, read |-> NoFlow,
     answer |-> "none", started |-> FALSE, result |-> NoOutcome]

\* -------------------------------------------------------------------- state
VARIABLES
    mode,              \* "seq": one handler at a time; "conc": handlers overlap
    clock,             \* the last value time.time() returned
    last_search_time,  \* workflow._last_search_time (0 until a search passes the gate)
    sessions,          \* workflow._sessions: user_id -> conversation
    nreq,              \* messages received so far
    toolTurns,         \* planner turns so far that asked for a known tool
    pc,                \* where each handler coroutine stands
    req,               \* the message a handler is serving
    run,               \* locals of run_workflow / resume_workflow / run_agent_loop
    out,               \* the workflow's result or exception, and the replies sent
    obs,               \* history of the run: collaborator calls, the stamp of its last
                       \* search that passed the gate and what fetch_listings
                       \* handed back for it, what the planner saw, the
                       \* call ids of the latest tool turn and the ids
                       \* answered by the latest tool_results turn, the
                       \* arguments of the latest fetch_listings and
                       \* create_listings_sheet calls
    gateStamps,        \* history: the stamps of the searches that passed the gate
    gateEvt,           \* history: the latest evaluation of the rate gate
    token_store,       \* the file TOKEN_STORE_FILE: user_id -> credential info
    device_store,      \* the file DEVICE_STORE_FILE: user_id -> pending device flow
    call,              \* locals of the _get_user_credentials call of each thread
    ncalls,            \* _get_user_credentials calls so far
    nflows             \* device flows handed out so far

\* The state of workflow.py and uagent_bridge.py, and the state of sheets.py.
agentVars == <<last_search_time, sessions, nreq, toolTurns, pc, req, run, out, obs,
               gateStamps, gateEvt>>
sheetVars == <<token_store, device_store, call, ncalls, nflows>>

vars == <<mode, clock, agentVars, sheetVars>>

NoCriteria == SearchInput("", "for_sale", NoneInt, 30)

IdleReq == [kind |-> "none", sender |-> "", user_id |-> "", query |-> "", serial |-> 0]

IdleRun ==
    [entry |-> "none", search |-> NoCriteria, prior |-> <<>>,
     state |-> [search |-> NoCriteria, user_id |-> "", df |-> NoneInt, sheet_url |-> "",
                num_results |-> 0, last_error |-> ""], messages |-> <<>>, iteration |-> 0,
     response |-> NoResponse, k |-> 0, tool_results |-> <<>>, final_summary |-> ""]

IdleOut ==
    [returned |-> FALSE, result |-> NoResult, exc |-> "", auth |-> "none", sent |-> <<>>]

IdleObs ==
    [plannerCalls |-> 0, fetched |-> FALSE, exported |-> FALSE, plannerInput |-> <<>>,
     filling |-> FALSE, hadSession |-> FALSE, sessionAtStart |-> <<>>, parsed |-> FALSE,
     stamped |-> 0, returned |-> [rows |-> NoneInt, priced |-> FALSE],
     asked |-> <<>>, answered |-> <<>>, sentTo |-> NoCriteria,
     exportedWith |-> [rows |-> NoneInt, location |-> "", listing_type |-> "",
                       user_id |-> ""]]

NoGateEvt ==
    [run |-> "none", user |-> "", now |-> 0, prior |-> <<>>, status |-> "none",
     fetched |-> FALSE]

InitWith(m) ==
    /\ mode = m
    /\ clock = TicksPerSecond
    /\ last_search_time = 0
    /\ sessions = EmptyObj
    /\ nreq = 0
    /\ toolTurns = 0
    /\ pc = [r \in Runs |-> "idle"]
    /\ req = [r \in Runs |-> IdleReq]
    /\ run = [r \in Runs |-> IdleRun]
    /\ out = [r \in Runs |-> IdleOut]
    /\ obs = [r \in Runs |-> IdleObs]
    /\ gateStamps = <<>>
    /\ gateEvt = NoGateEvt
    /\ token_store = EmptyObj
    /\ device_store = EmptyObj
    /\ call = [t \in Threads |-> IdleCall]
    /\ ncalls = 0
    /\ nflows = 0

Init == InitWith("seq")
InitConc == InitWith("conc")

\* ------------------------------------------------------------- scheduling
\* Where a coroutine has given up the event loop, or has not started.
YieldPoints == {"idle", "fetching", "exporting"}

\* The handler slots in use: one when handlers run one at a time.
Slots == IF mode = "seq" THEN {"h1"} ELSE Runs

\* A coroutine runs only while every other one is suspended; one that has
\* ended leaves its slot (Retire) before any other goes on.
CanStep(r) == \A o \in Runs \ {r} : pc[o] \in YieldPoints

\* A message is taken by the first free slot.
Free(r) ==
    /\ r \in Slots
    /\ r = "h1" \/ pc["h1"] # "idle"
    /\ pc[r] = "idle"
    /\ nreq < MaxRequests
    /\ CanStep(r)

\* The fresh run that keeps the stored session.
SessionKept(u) == sessions

\* dict.get / dict.pop / item assignment on _sessions.
SessionGet(u) == IF u \in DOMAIN sessions THEN sessions[u] ELSE <<>>
SessionPop(u) == [x \in DOMAIN sessions \ {u} |-> sessions[x]]
SessionPut(u, turns) ==
    [x \in DOMAIN sessions \cup {u} |-> IF x = u THEN turns ELSE sessions[x]]

Queries == {"3 bed house in Austin TX under 600k", "/google-auth", " Google Auth "}

Arrive(r, kind, sender, uid, query) ==
    /\ nreq' = nreq + 1
    /\ req' = [req EXCEPT ![r] = [kind |-> kind, sender |-> sender,
                                  user_id |-> ResolveUserId(uid, sender),
                                  query |-> query, serial |-> nreq + 1]]
    /\ obs' = [obs EXCEPT ![r] =
                 [IdleObs EXCEPT !.hadSession = ResolveUserId(uid, sender) \in DOMAIN sessions,
                                 !.sessionAtStart = SessionGet(ResolveUserId(uid, sender))]]

\* ---------------------------------------------------------------- handlers
\* ctx.send(sender, response)
Sent(r, response) ==
    [out EXCEPT ![r].sent = Append(@, [to |-> req[r].sender, msg |-> response])]

\* The handler's reply to the result of run_workflow / resume_workflow.
ResultReply(r, result) ==
    IF req[r].kind = "search"
    THEN SearchReply(result, req[r].user_id)
    ELSE IF req[r].kind = "followup"
    THEN FollowUpReply(result, req[r].user_id)
    ELSE ChatReply(result)

\* The handler's reply to an exception of the workflow.
ExceptionReply(r, exc) ==
    IF req[r].kind = "chat"
    THEN ChatErrorReply(exc)
    ELSE ErrorReply(exc, req[r].user_id)

\* The workflow returns `result` to the handler, which replies and ends.
Returned(r, result) ==
    /\ out' = [Sent(r, ResultReply(r, result)) EXCEPT ![r].result = result,
                                                       ![r].returned = TRUE]
    /\ pc' = [pc EXCEPT ![r] = "done"]

\* The workflow raises `exc`; the handler's except branch replies and ends.
Raised(r, exc) ==
    /\ out' = [Sent(r, ExceptionReply(r, exc)) EXCEPT ![r].exc = exc]
    /\ pc' = [pc EXCEPT ![r] = "done"]

\* handle_search up to its first branch: the authorization query is answered
\* without the workflow, anything else starts run_workflow.
HandleSearch(r) ==
    /\ Free(r)
    /\ \E sender \in Senders, uid \in MsgUserIds, query \in Queries :
         /\ Arrive(r, "search", sender, uid, query)
         /\ out' = [out EXCEPT ![r] = IdleOut]
         /\ pc' = [pc EXCEPT ![r] = IF IsAuthQuery(query) THEN "auth" ELSE "parse"]
         /\ run' = [run EXCEPT ![r] =
                      [IdleRun EXCEPT !.entry = IF IsAuthQuery(query) THEN "none" ELSE "fresh"]]
    /\ UNCHANGED sheetVars
    /\ UNCHANGED <<mode, clock, last_search_time, sessions, toolTurns, gateStamps, gateEvt>>

\* msg.text() of the chat messages the model draws.
ChatTexts == {"3 bed house in Austin TX under 600k", "/google-auth", " "}

\* handle_chat up to run_workflow: the acknowledgement goes out first; an
\* empty query is answered with a hint, anything else starts run_workflow
\* with the sender as user id.
HandleChat(r) ==
    /\ Free(r)
    /\ \E sender \in Senders, text \in ChatTexts :
         LET query == Strip(text)
             acked == AckFirst(<<>>, sender, nreq + 1)
         IN
         /\ Arrive(r, "chat", sender, "", query)
         /\ IF query = ""
            THEN /\ out' = [out EXCEPT ![r] =
                             [IdleOut EXCEPT !.sent =
                                Append(acked, [to |-> sender,
                                               msg |-> ChatMessage(Text(ChatHint), "")])]]
                 /\ pc' = [pc EXCEPT ![r] = "done"]
                 /\ run' = [run EXCEPT ![r] = IdleRun]
            ELSE /\ out' = [out EXCEPT ![r] = [IdleOut EXCEPT !.sent = acked]]
                 /\ pc' = [pc EXCEPT ![r] = "parse"]
                 /\ run' = [run EXCEPT ![r] = [IdleRun EXCEPT !.entry = "fresh"]]
    /\ UNCHANGED sheetVars
    /\ UNCHANGED <<mode, clock, last_search_time, sessions, toolTurns, gateStamps, gateEvt>>

\* How _get_user_credentials ends: it returns credentials ("connected"), raises
\* GoogleAuthRequiredError ("required"), or raises anything else ("failed").
AuthStatuses == {"connected", "required", "failed"}

\* get_google_auth_message when _get_user_credentials returns or asks for
\* authorization.
GoogleAuthMessage(status) ==
    IF status = "connected" THEN AuthConnected ELSE AuthInstr

\* The authorization query of handle_search: the reply carries the message of
\* get_google_auth_message; an exception other than GoogleAuthRequiredError is
\* caught neither by get_google_auth_message nor by handle_search.
AuthCheck(r) ==
    /\ pc[r] = "auth"
    /\ CanStep(r)
    /\ \E status \in AuthStatuses :
         IF status = "failed"
         THEN /\ pc' = [pc EXCEPT ![r] = "crashed"]
              /\ out' = [out EXCEPT ![r].exc = OAuthConfigError,
                                    ![r].auth = status]
         ELSE /\ pc' = [pc EXCEPT ![r] = "done"]
              /\ out' = [Sent(r, AuthReply(GoogleAuthMessage(status), req[r].user_id))
                         EXCEPT ![r].auth = status]
    /\ UNCHANGED sheetVars
    /\ UNCHANGED <<mode, clock, last_search_time, sessions, nreq, toolTurns, req, run, obs,
                   gateStamps, gateEvt>>

\* resume_workflow that never falls back to run_workflow.
ResumeAlways(prior_messages) == "resume"

\* resume_workflow's branch: `if prior_messages:` resumes, otherwise the call is
\* handed to run_workflow.
ResumeEntry(prior_messages) ==
    IF prior_messages # <<>> THEN "resume" ELSE "fresh"

\* handle_followup and the head of resume_workflow: with a stored session the
\* run resumes from it, without one it is run_workflow.
HandleFollowUp(r) ==
    /\ Free(r)
    /\ \E sender \in Senders, uid \in MsgUserIds :
         /\ Arrive(r, "followup", sender, uid, "and under 500k")
         /\ out' = [out EXCEPT ![r] = IdleOut]
         /\ run' = [run EXCEPT ![r] =
                      IF ResumeEntry(SessionGet(ResolveUserId(uid, sender))) = "resume"
                      THEN [IdleRun EXCEPT !.entry = "resume",
                                           !.prior = SessionGet(ResolveUserId(uid, sender))]
                      ELSE [IdleRun EXCEPT !.entry = "fresh"]]
    /\ pc' = [pc EXCEPT ![r] = "parse"]
    /\ UNCHANGED sheetVars
    /\ UNCHANGED <<mode, clock, last_search_time, sessions, toolTurns, gateStamps, gateEvt>>

\* ------------------------------------------------------------------ workflow
\* parse_search_intent raises (json.loads rejects the model's text); the
\* exception passes through the workflow to the handler.
ParseFails(r) ==
    /\ pc[r] = "parse"
    /\ CanStep(r)
    /\ Raised(r, ParseError)
    /\ UNCHANGED sheetVars
    /\ UNCHANGED <<mode, clock, last_search_time, sessions, nreq, toolTurns, req, run, obs,
                   gateStamps, gateEvt>>

\* parse_search_intent returns, and the caller goes on: run_workflow returns
\* early on an empty location and otherwise drops the user's session;
\* resume_workflow with a session goes straight to run_agent_loop.
ParseReturns(r) ==
    /\ pc[r] = "parse"
    /\ CanStep(r)
    /\ \E parsed \in ParserOutputs :
         LET search == ParsedCriteria(parsed) IN
         /\ run' = [run EXCEPT ![r].search = search]
         /\ obs' = [obs EXCEPT ![r].parsed = TRUE]
         /\ IF run[r].entry = "fresh" /\ search.location = ""
            THEN /\ Returned(r, NoLocationResult)
                 /\ UNCHANGED sessions
            ELSE /\ sessions' = IF run[r].entry = "fresh"
                                THEN SessionPop(req[r].user_id) ELSE sessions
                 /\ pc' = [pc EXCEPT ![r] = "begin"]
                 /\ UNCHANGED out
    /\ UNCHANGED sheetVars
    /\ UNCHANGED <<mode, clock, last_search_time, nreq, toolTurns, req, gateStamps, gateEvt>>

\* run_agent_loop before its loop: a new run state and the seeded conversation.
BeginLoop(r) ==
    /\ pc[r] = "begin"
    /\ CanStep(r)
    /\ run' = [run EXCEPT ![r].state = RunState(run[r].search, req[r].user_id),
                          ![r].messages = SeedMessages(run[r].prior, req[r].serial),
                          ![r].final_summary = "",
                          ![r].iteration = 0]
    /\ pc' = [pc EXCEPT ![r] = "loop"]
    /\ UNCHANGED sheetVars
    /\ UNCHANGED <<mode, clock, last_search_time, sessions, nreq, toolTurns, req, out, obs,
                   gateStamps, gateEvt>>

\* What the planner may answer at this point of the behaviour.  A planner that
\* has asked for the unknown tool goes on asking for it, up to the iteration cap.
PlannerMenu(r) ==
    IF obs[r].filling
    THEN {Response("tool_use", FillerTurn)}
    ELSE IF toolTurns >= MaxToolTurns
    THEN {p \in PlannerResponses :
            p.stop_reason = "tool_use" => p.content = FillerTurn}
    ELSE PlannerResponses

\* The loop exit that saves the conversation as it stood before the last turn.
LoopExitStale(r, messages, final_summary) ==
    /\ sessions' = SessionPut(req[r].user_id, run[r].messages)
    /\ Returned(r, LoopResult(final_summary, run[r].state, run[r].search, req[r].user_id))

\* run_agent_loop after its loop, left by break or by using up max_iterations:
\* the conversation is saved under the user's key, the result is assembled
\* from the run state, and the handler replies.
LoopExit(r, messages, final_summary) ==
    /\ sessions' = SessionPut(req[r].user_id, messages)
    /\ Returned(r, LoopResult(final_summary, run[r].state, run[r].search, req[r].user_id))

\* One iteration of the loop up to the dispatch on stop_reason: the planner is
\* called with the conversation and its turn is appended; on tool_use the loop
\* starts on the tool calls, otherwise (end_turn, or an unexpected stop
\* reason) it is left.
PlannerTurn(r) ==
    /\ pc[r] = "loop"
    /\ run[r].iteration < max_iterations
    /\ CanStep(r)
    /\ \E resp \in PlannerMenu(r) :
         LET messages == Append(run[r].messages,
                                Turn("assistant", resp.stop_reason, req[r].serial))
             final == FinalText(resp, run[r].final_summary)
         IN
         /\ obs' = [obs EXCEPT ![r].plannerCalls = @ + 1,
                               ![r].plannerInput = run[r].messages,
                               ![r].filling = resp = Response("tool_use", FillerTurn),
                               ![r].asked = IF resp.stop_reason = "tool_use"
                                            THEN CallIds(ToolCalls(resp.content))
                                            ELSE @]
         /\ IF resp.stop_reason = "tool_use"
            THEN /\ run' = [run EXCEPT ![r].response = resp,
                                       ![r].messages = messages,
                                       ![r].tool_results = <<>>,
                                       ![r].k = 1]
                 /\ pc' = [pc EXCEPT ![r] = "tools"]
                 /\ toolTurns' = IF resp.content # FillerTurn
                                 THEN toolTurns + 1 ELSE toolTurns
                 /\ UNCHANGED sheetVars
                 /\ UNCHANGED <<sessions, out>>
            ELSE /\ run' = [run EXCEPT ![r].response = resp,
                                       ![r].messages = messages,
                                       ![r].final_summary = final]
                 /\ LoopExit(r, messages, final)
                 /\ UNCHANGED toolTurns
    /\ UNCHANGED sheetVars
    /\ UNCHANGED <<mode, clock, last_search_time, nreq, req, gateStamps, gateEvt>>

\* client.messages.create raises inside the loop: the exception leaves
\* run_agent_loop before the session is saved, and reaches the handler.
PlannerFails(r) ==
    /\ pc[r] = "loop"
    /\ run[r].iteration < max_iterations
    /\ CanStep(r)
    /\ obs' = [obs EXCEPT ![r].plannerCalls = @ + 1,
                          ![r].plannerInput = run[r].messages]
    /\ Raised(r, PlannerError)
    /\ UNCHANGED sheetVars
    /\ UNCHANGED <<mode, clock, last_search_time, sessions, nreq, toolTurns, req, run,
                   gateStamps, gateEvt>>

\* ------------------------------------------------------ tool executor steps
\* The tool call the loop over response.content has reached.
Calls(r) == ToolCalls(run[r].response.content)
AtCall(r) == pc[r] = "tools" /\ run[r].k <= Len(Calls(r)) /\ CanStep(r)
Call(r) == Calls(r)[run[r].k]

\* The result that always names the first call of the turn.
AnsweredFirstId(r, outcome) ==
    [run EXCEPT ![r].tool_results = Append(@, ToolResult(Calls(r)[1].id, outcome)),
                ![r].k = @ + 1]

\* tool_results.append({...}) and on to the next block.
Answered(r, outcome) ==
    [run EXCEPT ![r].tool_results = Append(@, ToolResult(Call(r).id, outcome)),
                ![r].k = @ + 1]

\* time.time(): the clock never runs backwards.  Between two readings no
\* time, a full cooldown, or a cooldown less four hundredths of a second has
\* gone by; the time that goes by before the first search of the process is
\* left out (nothing reads the clock before it).
Delays == {0, Cooldown - 4, Cooldown}
TimeReads(from) ==
    IF last_search_time = 0 THEN {from}
    ELSE {from + d : d \in {e \in Delays : from + e <= MaxTime * TicksPerSecond}}
\* The second reading, two statements after the first, falls in the same tick.
StampReads(now) == {now}

\* _execute_tool("search_listings") up to the suspension in asyncio.to_thread:
\* the gate reads the clock and either answers rate_limited, or stamps
\* _last_search_time with a second clock reading, builds the criteria and
\* starts fetch_listings in a worker thread.
SearchListings(r) ==
    /\ AtCall(r)
    /\ Call(r).name = "search_listings"
    /\ \E now \in TimeReads(clock) :
         IF RateLimited(last_search_time, now)
         THEN /\ run' = [Answered(r, RateLimitedOutcome(WaitFor(last_search_time, now)))
                         EXCEPT ![r].state.search =
                                    GatedSearch(Call(r).input, run[r].state, TRUE)]
              /\ clock' = now
              /\ gateEvt' = [run |-> r, user |-> req[r].user_id, now |-> now,
                             prior |-> gateStamps,
                             status |-> "rate_limited", fetched |-> FALSE]
              /\ UNCHANGED sheetVars
              /\ UNCHANGED <<last_search_time, pc, obs, gateStamps>>
         ELSE \E stamp \in StampReads(now) :
              /\ last_search_time' = StampBeforeCall(last_search_time, stamp)
              /\ clock' = stamp
              /\ run' = [run EXCEPT ![r].state.search =
                                        GatedSearch(Call(r).input, run[r].state, FALSE)]
              /\ pc' = [pc EXCEPT ![r] = "fetching"]
              /\ obs' = [obs EXCEPT ![r].fetched = TRUE, ![r].stamped = stamp,
                                     ![r].sentTo = MergedSearch(Call(r).input, run[r].state)]
              /\ gateStamps' = Append(gateStamps, [at |-> stamp, user |-> req[r].user_id])
              /\ gateEvt' = [run |-> r, user |-> req[r].user_id, now |-> now,
                             prior |-> gateStamps,
                             status |-> "passed", fetched |-> TRUE]
    /\ UNCHANGED sheetVars
    /\ UNCHANGED <<mode, sessions, nreq, toolTurns, req, out>>

\* What fetch_listings hands back: an exception (rows = NoneInt), or a
\* DataFrame of `rows` rows of which some, or none, carries a list price.
FetchReturns ==
    { [rows |-> NoneInt, priced |-> FALSE],
      [rows |-> 0, priced |-> FALSE],
      [rows |-> 3, priced |-> TRUE],
      [rows |-> 3, priced |-> FALSE] }

\* The text of the exception that leaves the try block of search_listings, ""
\* if none does: the one fetch_listings raised, or the ValueError of
\* int(df["Price ($)"].min()) on rows that all lack a price (min() of an
\* all-NaN column is NaN).
SearchException(ret) ==
    IF ret.rows = NoneInt THEN FetchError
    ELSE IF ret.rows > 0 /\ ~ret.priced THEN SummaryError
    ELSE ""

\* fetch_listings comes back from its thread and search_listings records the
\* outcome in the run state: rows or no rows, or, after an exception, the
\* except branch with the result set dropped.
FetchDone(r) ==
    /\ pc[r] = "fetching"
    /\ CanStep(r)
    /\ \E ret \in FetchReturns :
         LET e == SearchException(ret) IN
         /\ run' = [Answered(r, IF e # "" THEN SearchErrorOutcome(e)
                                ELSE IF ret.rows = 0 THEN NoResultsOutcome
                                ELSE SearchSuccessOutcome(ret.rows))
                    EXCEPT ![r].state.df = IF e # "" THEN NoneInt ELSE ret.rows,
                           ![r].state.num_results = IF e # "" THEN 0 ELSE ret.rows,
                           ![r].state.last_error = e]
         /\ obs' = [obs EXCEPT ![r].returned = ret]
    /\ pc' = [pc EXCEPT ![r] = "tools"]
    /\ UNCHANGED sheetVars
    /\ UNCHANGED <<mode, clock, last_search_time, sessions, nreq, toolTurns, req, out,
                   gateStamps, gateEvt>>

\* _execute_tool("create_sheet") up to the suspension: without listings it
\* answers error at once, otherwise create_listings_sheet starts in a thread.
CreateSheet(r) ==
    /\ AtCall(r)
    /\ Call(r).name = "create_sheet"
    /\ IF NoListings(run[r].state)
       THEN /\ run' = Answered(r, NoDataOutcome)
            /\ UNCHANGED sheetVars
            /\ UNCHANGED <<pc, obs>>
       ELSE /\ pc' = [pc EXCEPT ![r] = "exporting"]
            /\ obs' = [obs EXCEPT ![r].exported = TRUE,
                                   ![r].exportedWith =
                                       [rows |-> run[r].state.df,
                                        location |-> run[r].state.search.location,
                                        listing_type |-> run[r].state.search.listing_type,
                                        user_id |-> run[r].state.user_id]]
            /\ UNCHANGED run
    /\ UNCHANGED sheetVars
    /\ UNCHANGED <<mode, clock, last_search_time, sessions, nreq, toolTurns, req, out,
                   gateStamps, gateEvt>>

\* create_listings_sheet comes back: the sheet's URL, GoogleAuthRequiredError,
\* or any other exception.
ExportDone(r) ==
    /\ pc[r] = "exporting"
    /\ CanStep(r)
    /\ \E res \in {"url", "auth", "error"} :
         run' = IF res = "url"
                THEN [Answered(r, SheetSuccessOutcome(SheetUrl, run[r].state.df))
                      EXCEPT ![r].state.sheet_url = SheetUrl,
                             ![r].state.last_error = ""]
                ELSE IF res = "auth"
                THEN [Answered(r, AuthRequiredOutcome(AuthInstr))
                      EXCEPT ![r].state.last_error = AuthInstr]
                ELSE [Answered(r, SheetErrorOutcome(ExportError))
                      EXCEPT ![r].state.last_error = ExportError]
    /\ pc' = [pc EXCEPT ![r] = "tools"]
    /\ UNCHANGED sheetVars
    /\ UNCHANGED <<mode, clock, last_search_time, sessions, nreq, toolTurns, req, out, obs,
                   gateStamps, gateEvt>>

\* _execute_tool with any other tool name.
UnknownTool(r) ==
    /\ AtCall(r)
    /\ Call(r).name \notin {"search_listings", "create_sheet"}
    /\ run' = Answered(r, UnknownToolOutcome(Call(r).name))
    /\ UNCHANGED sheetVars
    /\ UNCHANGED <<mode, clock, last_search_time, sessions, nreq, toolTurns, pc, req, out, obs,
                   gateStamps, gateEvt>>

\* Every tool call of the turn has its result: they go back to the planner in
\* one user turn and the loop continues, unless that was the last iteration.
AppendResults(r) ==
    /\ pc[r] = "tools"
    /\ run[r].k > Len(Calls(r))
    /\ CanStep(r)
    /\ LET messages == Append(run[r].messages,
                              ResultsTurn(req[r].serial, run[r].tool_results))
       IN
       /\ run' = [run EXCEPT ![r].messages = messages,
                             ![r].iteration = @ + 1,
                             ![r].response = NoResponse,
                             ![r].tool_results = <<>>,
                             ![r].k = 0]
       /\ IF run[r].iteration + 1 < max_iterations
          THEN /\ pc' = [pc EXCEPT ![r] = "loop"]
               /\ UNCHANGED sheetVars
               /\ UNCHANGED <<sessions, out>>
          ELSE LoopExit(r, messages, run[r].final_summary)
       /\ obs' = [obs EXCEPT ![r].answered = ResultIds(run[r].tool_results)]
    /\ UNCHANGED sheetVars
    /\ UNCHANGED <<mode, clock, last_search_time, nreq, toolTurns, req,
                   gateStamps, gateEvt>>

\* The handler coroutine has ended (returned, or died of an exception): its
\* locals are gone and the slot is free for another message.
Retire(r) ==
    /\ pc[r] \in {"done", "crashed"}
    /\ pc' = [pc EXCEPT ![r] = "idle"]
    /\ req' = [req EXCEPT ![r] = IdleReq]
    /\ run' = [run EXCEPT ![r] = IdleRun]
    /\ out' = [out EXCEPT ![r] = IdleOut]
    /\ obs' = [obs EXCEPT ![r] = IdleObs]
    /\ UNCHANGED sheetVars
    /\ UNCHANGED <<mode, clock, last_search_time, sessions, nreq, toolTurns,
                   gateStamps, gateEvt>>

Next ==
    \E r \in Runs :
        \/ HandleSearch(r)
        \/ AuthCheck(r)
        \/ HandleFollowUp(r)
        \/ HandleChat(r)
        \/ ParseFails(r)
        \/ ParseReturns(r)
        \/ BeginLoop(r)
        \/ PlannerTurn(r)
        \/ PlannerFails(r)
        \/ SearchListings(r)
        \/ FetchDone(r)
        \/ CreateSheet(r)
        \/ ExportDone(r)
        \/ UnknownTool(r)
        \/ AppendResults(r)
        \/ Retire(r)

Spec == Init /\ [][Next]_vars
SpecConc == InitConc /\ [][Next]_vars

\* The event loop runs every coroutine that is ready, and every call a
\* coroutine waits for returns or raises.
Progress(r) ==
    \/ AuthCheck(r)
    \/ ParseFails(r)
    \/ ParseReturns(r)
    \/ BeginLoop(r)
    \/ PlannerTurn(r)
    \/ PlannerFails(r)
    \/ SearchListings(r)
    \/ FetchDone(r)
    \/ CreateSheet(r)
    \/ ExportDone(r)
    \/ UnknownTool(r)
    \/ AppendResults(r)
    \/ Retire(r)

FairSpec == Spec /\ \A r \in Runs : WF_vars(Progress(r))

\* ------------------------------------------- sheets.py: _get_user_credentials
\* Every step below is one file operation or one request to Google together
\* with the statements that follow it up to the next one.  Threads are
\* preemptive, and nothing in sheets.py locks the two files, so in mode
\* "threads" the steps of two calls interleave freely; in mode "calls" a call
\* begins only when no other is running.

\* int(time.time())
Now == clock \div TicksPerSecond

SetCall(t, c) == call' = [call EXCEPT ![t] = c]

\* Time passes, half a flow's life at a time.
AuthTick ==
    /\ Now + ExpiresIn \div 2 <= MaxAuthTime
    /\ clock' = clock + (ExpiresIn \div 2) * TicksPerSecond
    /\ UNCHANGED <<mode, agentVars, sheetVars>>

\* A call begins (from create_listings_sheet in a worker thread, or from
\* get_google_auth_message): token_store = _load_json_file(TOKEN_STORE_FILE),
\* and a user with a saved token gets credentials at once.
CallStarts(t, u) ==
    /\ call[t].pc = "idle"
    /\ ncalls < MaxCalls
    /\ mode = "threads" \/ \A o \in Threads : call[o].pc = "idle"
    /\ ncalls' = ncalls + 1
    /\ LET saved_token_info == StoreGet(token_store, u, NoToken)
           c == [IdleCall EXCEPT !.user_id = u, !.token_store = token_store]
       IN  IF saved_token_info # NoToken
           THEN SetCall(t, [c EXCEPT !.pc = "returned", !.result = Creds])
           ELSE SetCall(t, [c EXCEPT !.pc = "load_flows"])
    /\ UNCHANGED <<mode, clock, agentVars, token_store, device_store, nflows>>

\* device_store = _load_json_file(DEVICE_STORE_FILE); flow = device_store.get(user_id)
LoadFlows(t) ==
    /\ call[t].pc = "load_flows"
    /\ LET c == call[t]
           flow == StoreGet(device_store, c.user_id, NoFlow)
           loaded == [c EXCEPT !.device_store = device_store, !.flow = flow,
                               !.now = Now, !.read = flow]
       IN  IF flow # NoFlow /\ FlowExpired(flow, Now)
           THEN SetCall(t, [loaded EXCEPT !.pc = "save_expired",
                                          !.device_store = StorePop(device_store, c.user_id)])
           ELSE IF flow = NoFlow
           THEN SetCall(t, [loaded EXCEPT !.pc = "start_flow"])
           ELSE SetCall(t, [loaded EXCEPT !.pc = "poll"])
    /\ UNCHANGED <<mode, clock, agentVars, token_store, device_store, ncalls, nflows>>

\* The expired flow is dropped: _save_json_file(DEVICE_STORE_FILE, device_store); flow = None
SaveExpired(t) ==
    /\ call[t].pc = "save_expired"
    /\ device_store' = call[t].device_store
    /\ SetCall(t, [call[t] EXCEPT !.pc = "start_flow", !.flow = NoFlow])
    /\ UNCHANGED <<mode, clock, agentVars, token_store, ncalls, nflows>>

\* _start_device_flow(client_id): the device endpoint hands out a fresh flow,
\* or answers with an error and RuntimeError is raised.
StartFlow(t) ==
    /\ call[t].pc = "start_flow"
    /\ \E ok \in (IF nflows < MaxFlows THEN BOOLEAN ELSE {FALSE}) :
          IF ok
          THEN LET flow == DeviceFlow(nflows + 1, Now)
               IN  /\ nflows' = nflows + 1
                   /\ SetCall(t, [call[t] EXCEPT
                          !.pc = "save_flow", !.flow = flow, !.started = TRUE,
                          !.device_store = StorePut(call[t].device_store,
                                                    call[t].user_id, flow)])
          ELSE /\ nflows' = nflows
               /\ SetCall(t, [call[t] EXCEPT !.pc = "raised", !.result = OAuthFailed])
    /\ UNCHANGED <<mode, clock, agentVars, token_store, device_store, ncalls>>

\* _save_json_file(DEVICE_STORE_FILE, device_store) with the call's flow in
\* it (new, restarted, or slowed down), then raise GoogleAuthRequiredError.
SaveFlow(t) ==
    /\ call[t].pc = "save_flow"
    /\ device_store' = call[t].device_store
    /\ SetCall(t, [call[t] EXCEPT
           !.pc = "raised",
           !.result = AuthRequired(call[t].flow, call[t].answer \in RestartErrors)])
    /\ UNCHANGED <<mode, clock, agentVars, token_store, ncalls, nflows>>

\* token_response = _poll_device_flow(...) and the branch on its error.
PollFlow(t) ==
    /\ call[t].pc = "poll"
    /\ \E error \in PollAnswers(call[t].flow) :
          LET c == [call[t] EXCEPT !.answer = error]
              u == c.user_id
          IN  IF error \in PendingErrors /\ error # "slow_down"
              THEN SetCall(t, [c EXCEPT !.pc = "raised",
                                        !.result = AuthRequired(c.flow, FALSE)])
              ELSE IF error \in PendingErrors
              THEN LET flow == [c.flow EXCEPT !.interval = @ + 5]
                   IN  SetCall(t, [c EXCEPT !.pc = "save_flow", !.flow = flow,
                                     !.device_store = StorePut(c.device_store, u, flow)])
              ELSE IF error \in RestartErrors
              THEN SetCall(t, [c EXCEPT !.pc = "save_denied",
                                        !.device_store = StorePop(c.device_store, u)])
              ELSE IF error # ""
              THEN SetCall(t, [c EXCEPT !.pc = "raised", !.result = OAuthFailed])
              ELSE SetCall(t, [c EXCEPT !.pc = "save_token",
                                 !.token_store = StorePut(c.token_store, u,
                                                          CredentialInfo(c.flow))])
    /\ UNCHANGED <<mode, clock, agentVars, token_store, device_store, ncalls, nflows>>

\* The denied flow is dropped: _save_json_file(DEVICE_STORE_FILE, device_store),
\* and a new one is asked for.
SaveDenied(t) ==
    /\ call[t].pc = "save_denied"
    /\ device_store' = call[t].device_store
    /\ SetCall(t, [call[t] EXCEPT !.pc = "start_flow"])
    /\ UNCHANGED <<mode, clock, agentVars, token_store, ncalls, nflows>>

\* _save_json_file(TOKEN_STORE_FILE, token_store); device_store.pop(user_id, None)
SaveToken(t) ==
    /\ call[t].pc = "save_token"
    /\ token_store' = call[t].token_store
    /\ SetCall(t, [call[t] EXCEPT
           !.pc = "drop_flow",
           !.device_store = StorePop(call[t].device_store, call[t].user_id)])
    /\ UNCHANGED <<mode, clock, agentVars, device_store, ncalls, nflows>>

\* _save_json_file(DEVICE_STORE_FILE, device_store); return creds
DropFlow(t) ==
    /\ call[t].pc = "drop_flow"
    /\ device_store' = call[t].device_store
    /\ SetCall(t, [call[t] EXCEPT !.pc = "returned", !.result = Creds])
    /\ UNCHANGED <<mode, clock, agentVars, token_store, ncalls, nflows>>

\* The caller has its credentials or its exception; the thread is free.
CallEnds(t) ==
    /\ call[t].pc \in {"returned", "raised"}
    /\ SetCall(t, IdleCall)
    /\ UNCHANGED <<mode, clock, agentVars, token_store, device_store, ncalls, nflows>>

NextSheets ==
    \/ AuthTick
    \/ \E t \in Threads :
        \/ \E u \in SheetUsers : CallStarts(t, u)
        \/ LoadFlows(t)
        \/ SaveExpired(t)
        \/ StartFlow(t)
        \/ SaveFlow(t)
        \/ PollFlow(t)
        \/ SaveDenied(t)
        \/ SaveToken(t)
        \/ DropFlow(t)
        \/ CallEnds(t)

\* One _get_user_credentials call at a time, and calls that overlap.
SpecSheetsSeq == InitWith("calls") /\ [][NextSheets]_vars
SpecSheets == InitWith("threads") /\ [][NextSheets]_vars

\* ------------------------------------------------------------------- claims
\* s is the beginning of t, and what follows it in t was appended by request `by`.
ExtendedBy(s, t, by) ==
    /\ Len(s) <= Len(t)
    /\ SubSeq(t, 1, Len(s)) = s
    /\ \A i \in (Len(s) + 1) .. Len(t) : t[i].by = by

\* C1: across all runs and users, under any interleaving of the handlers, any
\* two searches that passed the gate and reached fetch_listings carry stamps
\* at least SEARCH_COOLDOWN_SECONDS (8 seconds, 800 ticks) apart.
C1_StampsApart ==
    \A i, j \in DOMAIN gateStamps :
        i < j => gateStamps[j].at - gateStamps[i].at >= 800

\* Two searches of different users have passed the gate and both are still
\* inside fetch_listings.
C1_Witness ==
    /\ Len(gateStamps) = 2
    /\ gateStamps[1].user # gateStamps[2].user
    /\ pc["h1"] = "fetching"
    /\ pc["h2"] = "fetching"

\* C2: a search_listings call answers rate_limited, and does not call
\* fetch_listings, if and only if some search (of any user, in any run) passed
\* the gate less than 8 seconds (800 ticks) earlier; a call made 8 or more
\* seconds after the last passing search, or when none has passed, goes on to
\* fetch_listings.
C2_RateLimitedIff ==
    gateEvt.run # "none" =>
        LET recent == /\ gateEvt.prior # <<>>
                      /\ gateEvt.now - gateEvt.prior[Len(gateEvt.prior)].at < 800
        IN /\ (gateEvt.status = "rate_limited") <=> recent
           /\ (gateEvt.status = "passed") <=> ~recent
           /\ gateEvt.fetched <=> ~recent

\* A search is refused 7.96 seconds after a search of another user passed the gate.
C2_Witness ==
    /\ gateEvt.status = "rate_limited"
    /\ ~gateEvt.fetched
    /\ gateEvt.prior # <<>>
    /\ gateEvt.prior[Len(gateEvt.prior)].user # gateEvt.user
    /\ gateEvt.now - gateEvt.prior[Len(gateEvt.prior)].at = 796

\* C3: for every request (fresh or resume, with or without a session) whose
\* parsed location is empty, the planner, fetch_listings and
\* create_listings_sheet are never invoked and the result has num_results 0,
\* an empty sheet_url and the fixed clarification summary.
C3_EmptyLocationStops ==
    \A r \in Runs :
        (obs[r].parsed /\ run[r].search.location = "") =>
            /\ obs[r].plannerCalls = 0
            /\ ~obs[r].fetched
            /\ ~obs[r].exported
            /\ pc[r] = "done" =>
                 /\ out[r].returned
                 /\ out[r].result.num_results = 0
                 /\ out[r].result.sheet_url = ""
                 /\ out[r].result.summary = Str("text", 0, "", ClarifyText)

\* C4: when the parser's model output is no JSON the run, fresh or resume,
\* fails before any planner or tool call, and the handler replies with one
\* SearchResponse: the exception text in error, the user id as session_id,
\* num_results 0 and an empty sheet_url.
C4_ParseFailureReply ==
    \A r \in Runs :
        (out[r].exc = ParseError /\ req[r].kind \in {"search", "followup"}) =>
            /\ pc[r] = "done"
            /\ ~out[r].returned
            /\ obs[r].plannerCalls = 0
            /\ ~obs[r].fetched
            /\ ~obs[r].exported
            /\ Len(out[r].sent) = 1
            /\ out[r].sent[1].to = req[r].sender
            /\ out[r].sent[1].msg.error = Str("text", 0, "", ParseError)
            /\ out[r].sent[1].msg.session_id = req[r].user_id
            /\ out[r].sent[1].msg.num_results = 0
            /\ out[r].sent[1].msg.sheet_url = ""

\* A resume run, for a user id that is not the sender's address, has failed to parse.
C4_Witness ==
    \E r \in Runs :
        /\ out[r].exc = ParseError
        /\ run[r].entry = "resume"
        /\ req[r].user_id # req[r].sender

\* C5: create_sheet called while the run state holds no non-empty result set
\* answers status error, does not call create_listings_sheet, and leaves
\* sheet_url, num_results, last_error and the stored result set as they were.
C5_NoDataNoExport ==
    [][\A r \in Runs :
         (/\ pc[r] = "tools"
          /\ run[r].k <= Len(Calls(r))
          /\ Call(r).name = "create_sheet"
          /\ run[r].state.df \in {NoneInt, 0}
          /\ <<pc[r], run[r]>>' # <<pc[r], run[r]>>)
         => /\ pc'[r] = "tools"
            /\ run'[r].k = run[r].k + 1
            /\ Len(run'[r].tool_results) = Len(run[r].tool_results) + 1
            /\ run'[r].tool_results[Len(run'[r].tool_results)].content.status = "error"
            /\ run'[r].tool_results[Len(run'[r].tool_results)].tool_use_id = Call(r).id
            /\ run'[r].state = run[r].state
            /\ obs'[r].exported = obs[r].exported
      ]_vars

\* create_sheet has just answered error after a search of the same turn came
\* back with zero rows.
C5_Witness ==
    \E r \in Runs :
        /\ pc[r] = "tools"
        /\ Len(run[r].tool_results) = 2
        /\ run[r].tool_results[1].content.status = "no_results"
        /\ run[r].tool_results[2].content = NoDataOutcome
        /\ run[r].state.df = 0
        /\ ~obs[r].exported

\* C6: every fresh run (run_workflow) for user u removes the session stored
\* for u before parsing and looping, so that whatever the outcome (final
\* answer, fallback, NO_LOCATION, error) no turn of the earlier session
\* survives the run.
C6_FreshRunClearsSession ==
    \A r \in Runs :
        (pc[r] = "done" /\ run[r].entry = "fresh") =>
            \A i \in DOMAIN SessionGet(req[r].user_id) :
                SessionGet(req[r].user_id)[i].by = req[r].serial

\* C7: in a resume run for a user with session S, the conversation given to
\* the planner on every invocation, and the session saved at the end of the
\* run, start with the turns of S, unchanged and in order, followed only by
\* turns of this run.
C7_ResumeKeepsSession ==
    \A r \in Runs :
        run[r].entry = "resume" =>
            /\ obs[r].plannerCalls > 0 =>
                 ExtendedBy(obs[r].sessionAtStart, obs[r].plannerInput, req[r].serial)
            /\ (pc[r] = "done" /\ out[r].returned) =>
                 ExtendedBy(obs[r].sessionAtStart, SessionGet(req[r].user_id),
                            req[r].serial)

\* A resume run that called the planner at least twice has returned.
C7_Witness ==
    \E r \in Runs :
        /\ run[r].entry = "resume"
        /\ pc[r] = "done"
        /\ out[r].returned
        /\ obs[r].plannerCalls >= 2
        /\ Len(obs[r].sessionAtStart) >= 2

\* C8: every WorkflowResult that run_workflow or resume_workflow returns has
\* a non-empty summary, on every branch: final answer (also one with no or
\* empty text), anomalous stop, iteration cap, NO_LOCATION.
C8_SummaryNonEmpty ==
    \A r \in Runs :
        out[r].returned => out[r].result.summary.kind # "empty"

\* The planner ended its turn without any text and the run returned the
\* fallback summary.
C8_Witness ==
    \E r \in Runs :
        /\ out[r].returned
        /\ run[r].final_summary = ""
        /\ run[r].messages # <<>>
        /\ run[r].messages[Len(run[r].messages)].kind = "end_turn"
        /\ out[r].result.summary.kind \in {"found", "failed", "none"}

\* C9: in one run the planner is invoked at most 8 times, and whatever the
\* planner does (also asking for tools on every turn) the run ends with a
\* WorkflowResult, provided every planner and collaborator call returns.
C9_BoundedRun ==
    /\ [](\A r \in Runs : obs[r].plannerCalls <= 8)
    /\ \A r \in Runs :
         (pc[r] = "loop") ~>
             (pc[r] = "done" /\ (out[r].returned \/ out[r].exc = PlannerError))

\* A run has used up the 8 iterations, asking for tools on each, and returned.
C9_Witness ==
    \E r \in Runs :
        /\ pc[r] = "done"
        /\ out[r].returned
        /\ obs[r].plannerCalls = 8
        /\ run[r].iteration = 8

\* C10: for every SearchRequest and FollowUpRequest the handler sends exactly
\* one SearchResponse to the sender on every branch: the authorization query
\* (also when the status check fails with an error that is not
\* GoogleAuthRequiredError), a normal result, a workflow exception.
C10_OneResponse ==
    \A r \in Runs :
        (pc[r] \in {"done", "crashed"} /\ req[r].kind \in {"search", "followup"}) =>
            /\ Len(out[r].sent) = 1
            /\ out[r].sent[1].to = req[r].sender

\* C11: in every SearchResponse sent in reply to a SearchRequest or a
\* FollowUpRequest, error is non-empty if and only if the run produced no
\* usable artifact (sheet_url is empty).  Stated for the replies to requests
\* that started a workflow run.
C11_ErrorIffNoArtifact ==
    \A r \in Runs :
        (req[r].kind \in {"search", "followup"} /\ run[r].entry # "none") =>
            \A i \in DOMAIN out[r].sent :
                (out[r].sent[i].msg.error.kind # "empty")
                    <=> (out[r].sent[i].msg.sheet_url = "")

\* C12: for every run in which a search succeeded and create_listings_sheet
\* signalled that authorization is required, so that no sheet was made, the
\* SearchResponse has an empty sheet_url and carries the authorization
\* instructions in error and in summary, whatever final text the planner gave.
C12_AuthRequiredReachesUser ==
    \A r \in Runs :
        (/\ req[r].kind \in {"search", "followup"}
         /\ pc[r] = "done"
         /\ out[r].returned
         /\ run[r].state.df > 0
         /\ run[r].state.sheet_url = ""
         /\ run[r].state.last_error = AuthInstr)
        => /\ Len(out[r].sent) = 1
           /\ out[r].sent[1].msg.sheet_url = ""
           /\ out[r].sent[1].msg.error.s = AuthInstr
           /\ out[r].sent[1].msg.summary.s = AuthInstr

\* C13: a SearchRequest whose query, trimmed and lower-cased, is "/google-auth",
\* "google auth" or "connect google" never invokes the parser, the planner or
\* a tool and leaves the user's session as it was; its SearchResponse has the
\* connected message as summary and an empty error when the user is
\* authorized, and otherwise the authorization instructions in summary and
\* error.
C13_AuthShortCircuit ==
    \A r \in Runs :
        (req[r].kind = "search" /\ IsAuthQuery(req[r].query)) =>
            /\ run[r].entry = "none"
            /\ ~obs[r].parsed
            /\ obs[r].plannerCalls = 0
            /\ ~obs[r].fetched
            /\ ~obs[r].exported
            /\ SessionGet(req[r].user_id) = obs[r].sessionAtStart
            /\ pc[r] \in {"done", "crashed"} =>
                 /\ Len(out[r].sent) = 1
                 /\ IF out[r].auth = "connected"
                    THEN /\ out[r].sent[1].msg.summary = Str("text", 0, "", AuthConnected)
                         /\ out[r].sent[1].msg.error.kind = "empty"
                    ELSE /\ out[r].sent[1].msg.summary.s = AuthInstr
                         /\ out[r].sent[1].msg.error.s = AuthInstr

\* C14: a chat message with query q from sender s is processed exactly as a
\* SearchRequest with query q and user id s: the same branch is taken (the
\* authorization short-circuit for the special queries, run_workflow for
\* every other query) and the session key is s.
C14_ChatAsSearch ==
    \A r \in Runs :
        req[r].kind = "chat" =>
            /\ req[r].user_id = req[r].sender
            /\ run[r].entry = IF IsAuthQuery(req[r].query) THEN "none" ELSE "fresh"
            /\ (IsAuthQuery(req[r].query) /\ pc[r] = "done") => out[r].auth # "none"

\* C15: for every chat message the handler sends the acknowledgement of that
\* message id before any substantive reply, and then exactly one substantive
\* chat reply, on every branch (empty query, result with or without a sheet,
\* workflow exception).
C15_AckThenOneReply ==
    \A r \in Runs :
        req[r].kind = "chat" =>
            /\ Len(out[r].sent) = IF pc[r] = "done" THEN 2 ELSE 1
            /\ out[r].sent[1].to = req[r].sender
            /\ out[r].sent[1].msg = [type |-> "ack", acknowledged_msg_id |-> req[r].serial]
            /\ \A i \in 2 .. Len(out[r].sent) :
                 /\ out[r].sent[i].to = req[r].sender
                 /\ out[r].sent[i].msg.type = "chat"

\* A chat message whose workflow raised has been acknowledged and answered.
C15_Witness ==
    \E r \in Runs :
        /\ req[r].kind = "chat"
        /\ pc[r] = "done"
        /\ out[r].exc = PlannerError
        /\ Len(out[r].sent) = 2
        /\ out[r].sent[2].msg.body.kind = "sorry"

\* C16: every WorkflowResult returned by run_workflow or resume_workflow for
\* user u has session_id equal to u, on every branch including NO_LOCATION.
C16_SessionIdIsUser ==
    \A r \in Runs :
        out[r].returned => out[r].result.session_id = req[r].user_id

\* C17: for every tool name and input the planner can ask for and every
\* collaborator behaviour, _execute_tool returns an outcome with a status
\* field from {success, no_results, rate_limited, auth_required, error}.
C17_OutcomeHasStatus ==
    \A r \in Runs :
        \A i \in DOMAIN run[r].tool_results :
            /\ "status" \in DOMAIN run[r].tool_results[i].content
            /\ run[r].tool_results[i].content.status
                 \in {"success", "no_results", "rate_limited", "auth_required", "error"}

\* C18: after a run that entered the planner loop and left it by final
\* answer, anomalous stop or the iteration cap, the session stored for the
\* run's user is the run's full conversation: the seed turns, the instruction
\* turn, then every planner turn and every tool-result turn, in order.
C18_SessionIsConversation ==
    \A r \in Runs :
        (pc[r] = "done" /\ out[r].returned /\ obs[r].plannerCalls > 0) =>
            LET conv == SessionGet(req[r].user_id)
                seed == IF run[r].entry = "resume" THEN obs[r].sessionAtStart ELSE <<>>
                n    == Len(seed)
            IN
            /\ conv = run[r].messages
            /\ Len(conv) = n + 1 + obs[r].plannerCalls + run[r].iteration
            /\ SubSeq(conv, 1, n) = seed
            /\ conv[n + 1] = [role |-> "user", kind |-> "prompt", by |-> req[r].serial]
            /\ \A j \in 1 .. (Len(conv) - n - 1) :
                 /\ conv[n + 1 + j].by = req[r].serial
                 /\ IF j % 2 = 1
                    THEN conv[n + 1 + j].role = "assistant"
                    ELSE /\ conv[n + 1 + j].role = "user"
                         /\ conv[n + 1 + j].kind = "tool_results"

\* A resume run has used up the iteration cap and returned.
C18_Witness ==
    \E r \in Runs :
        /\ pc[r] = "done"
        /\ out[r].returned
        /\ run[r].entry = "resume"
        /\ run[r].iteration = 8
        /\ Len(SessionGet(req[r].user_id)) >= 19

\* C19: resume_workflow for a user with no stored session behaves as
\* run_workflow on the same input: it starts from no prior turns, returns the
\* NO_LOCATION result without touching planner, collaborators or session store
\* when the location is empty, and otherwise runs the loop on a conversation
\* that holds only turns of this run.
C19_ResumeWithoutSessionIsFresh ==
    \A r \in Runs :
        (req[r].kind = "followup" /\ ~obs[r].hadSession) =>
            /\ run[r].entry = "fresh"
            /\ run[r].prior = <<>>
            /\ (obs[r].parsed /\ run[r].search.location = "") =>
                 /\ pc[r] = "done"
                 /\ obs[r].plannerCalls = 0
                 /\ ~obs[r].fetched
                 /\ ~obs[r].exported
                 /\ out[r].result.summary = Str("text", 0, "", ClarifyText)
                 /\ out[r].result.num_results = 0
            /\ obs[r].plannerCalls > 0 =>
                 \A i \in DOMAIN obs[r].plannerInput :
                     obs[r].plannerInput[i].by = req[r].serial
            /\ (pc[r] = "done" /\ out[r].returned /\ obs[r].plannerCalls > 0) =>
                 \A i \in DOMAIN SessionGet(req[r].user_id) :
                     SessionGet(req[r].user_id)[i].by = req[r].serial

\* A follow-up for a user without a session has searched and returned.
C19_Witness ==
    \E r \in Runs :
        /\ req[r].kind = "followup"
        /\ ~obs[r].hadSession
        /\ pc[r] = "done"
        /\ out[r].returned
        /\ obs[r].fetched

\* C20: a search_listings call that answers rate_limited leaves
\* _last_search_time and the whole run state (criteria, result set,
\* num_results, sheet_url, last_error) unchanged and calls no collaborator; the
\* wait it reports is the cooldown minus the time elapsed since the last
\* passing search, rounded to a tenth of a second, and lies in [0, 8] seconds.
C20_RateLimitedFrame ==
    [][\A r \in Runs :
         (/\ pc[r] = "tools"
          /\ run[r].k <= Len(Calls(r))
          /\ Call(r).name = "search_listings"
          /\ Len(run'[r].tool_results) = Len(run[r].tool_results) + 1
          /\ run'[r].tool_results[Len(run'[r].tool_results)].content.status = "rate_limited")
         => LET wait == run'[r].tool_results[Len(run'[r].tool_results)].content.wait
                left == 800 - (clock' - last_search_time)
            IN
            /\ last_search_time' = last_search_time
            /\ run'[r].state = run[r].state
            /\ obs'[r].fetched = obs[r].fetched
            /\ pc'[r] = "tools"
            /\ wait % 10 = 0
            /\ wait - left <= 5
            /\ left - wait <= 5
            /\ wait >= 0
            /\ wait <= 800
      ]_vars

\* C20 as stated: the reported wait equals the cooldown minus the elapsed time
\* and lies in (0, 8].
C20_WaitExact ==
    [][\A r \in Runs :
         (/\ pc[r] = "tools"
          /\ run[r].k <= Len(Calls(r))
          /\ Call(r).name = "search_listings"
          /\ Len(run'[r].tool_results) = Len(run[r].tool_results) + 1
          /\ run'[r].tool_results[Len(run'[r].tool_results)].content.status = "rate_limited")
         => LET wait == run'[r].tool_results[Len(run'[r].tool_results)].content.wait
            IN
            /\ last_search_time' = last_search_time
            /\ run'[r].state = run[r].state
            /\ wait = 800 - (clock' - last_search_time)
            /\ wait > 0
            /\ wait <= 800
      ]_vars

\* A retry 7.96 seconds after a search that stored 3 rows has been refused
\* with a reported wait of 0.0 seconds; the rows are still in the run state.
C20_Witness ==
    \E r \in Runs :
        /\ pc[r] = "tools"
        /\ run[r].tool_results # <<>>
        /\ run[r].tool_results[Len(run[r].tool_results)].content
             = [status |-> "rate_limited", wait |-> 0]
        /\ run[r].state.df = 3
        /\ clock - last_search_time = 796

\* C21: when search_listings calls of concurrent runs (of one user or of
\* several) overlap, the gate's read, check and stamp of _last_search_time is
\* atomic with respect to the other calls: of the calls made within one
\* cooldown at most one is inside fetch_listings, a call made when no search
\* has passed the gate goes through, and a call evaluated while the
\* fetch_listings of another run is in flight and less than 8 seconds (800
\* ticks) after that run's stamp answers rate_limited.
C21_GateAtomic ==
    /\ \A r, o \in Runs :
         (r # o /\ pc[r] = "fetching" /\ pc[o] = "fetching"
            /\ obs[r].stamped <= obs[o].stamped)
         => obs[o].stamped - obs[r].stamped >= 800
    /\ (gateEvt.run # "none" /\ gateEvt.prior = <<>>) => gateEvt.status = "passed"
    /\ gateEvt.run # "none" =>
         \A o \in Runs \ {gateEvt.run} :
             (pc[o] = "fetching" /\ gateEvt.now - obs[o].stamped < 800)
             => /\ gateEvt.status = "rate_limited"
                /\ ~gateEvt.fetched
                /\ pc[gateEvt.run] # "fetching"

\* While the fetch_listings of one run is in flight, a search of another run
\* made in the same clock tick has been refused.
C21_Witness ==
    \E r, o \in Runs :
        /\ r # o
        /\ pc[o] = "fetching"
        /\ gateEvt.run = r
        /\ gateEvt.status = "rate_limited"
        /\ gateEvt.now = obs[o].stamped
        /\ pc[r] = "tools"

\* C22: for a search_listings call that passes the gate, the criteria handed to
\* fetch_listings are the run's current criteria with every field the planner
\* supplied replaced by the planner's value; a field the planner did not supply
\* (location, listing type, price bound, recency window) keeps the run's
\* current value.
C22_OverridesMerged ==
    [][\A r \in Runs :
         (/\ pc[r] = "tools"
          /\ run[r].k <= Len(Calls(r))
          /\ Call(r).name = "search_listings"
          /\ pc'[r] = "fetching")
         => \A f \in {"location", "listing_type", "min_price", "past_days"} :
                run'[r].state.search[f] =
                    IF f \in DOMAIN Call(r).input
                    THEN Call(r).input[f]
                    ELSE run[r].state.search[f]
      ]_vars

\* C23: after a search_listings call that passed the gate: if fetch_listings
\* returned at least one row the outcome is success, the rows are stored,
\* num_results is their number and last_error is empty; if it returned no row
\* the outcome is no_results, num_results is 0 and no exportable result set
\* remains; if it raised, the outcome is error, the stored result set is
\* cleared, num_results is 0 and last_error holds the exception text.
C23_SearchOutcome ==
    \A r \in Runs :
        (/\ pc[r] = "tools"
         /\ run[r].k >= 2
         /\ Calls(r)[run[r].k - 1].name = "search_listings"
         /\ Len(run[r].tool_results) = run[r].k - 1
         /\ Get(run[r].tool_results[run[r].k - 1].content, "status", "") # "rate_limited")
        => LET outcome == run[r].tool_results[run[r].k - 1].content
               st      == run[r].state
               rows    == obs[r].returned.rows
           IN
           /\ rows > 0 =>
                /\ outcome.status = "success"
                /\ outcome.num_results = rows
                /\ st.df = rows
                /\ st.num_results = rows
                /\ st.last_error = ""
           /\ rows = 0 =>
                /\ outcome.status = "no_results"
                /\ outcome.num_results = 0
                /\ st.num_results = 0
                /\ st.df \in {NoneInt, 0}
           /\ rows = NoneInt =>
                /\ outcome.status = "error"
                /\ st.df = NoneInt
                /\ st.num_results = 0
                /\ st.last_error = FetchError

\* C24: whenever create_sheet answers auth_required, whatever tool calls came
\* before it in the run, the outcome carries the authorization instructions,
\* last_error of the run state is set to them, and sheet_url of the run state
\* is empty after the call.
C24_AuthRequiredState ==
    \A r \in Runs :
        (/\ pc[r] = "tools"
         /\ run[r].k >= 2
         /\ Calls(r)[run[r].k - 1].name = "create_sheet"
         /\ Len(run[r].tool_results) = run[r].k - 1
         /\ Get(run[r].tool_results[run[r].k - 1].content, "status", "") = "auth_required")
        => /\ run[r].tool_results[run[r].k - 1].content.error = AuthInstr
           /\ run[r].state.last_error = AuthInstr
           /\ run[r].state.sheet_url = ""

\* C25: when a planner turn asks for several tools, every one of them is
\* executed, one after the other in the order asked; one user turn is then
\* appended that holds one tool_result per call, in the same order and with
\* the call's id; and the planner is not invoked again before that turn is in
\* the conversation.
C25_ToolTurnAnswered ==
    /\ [](\A r \in Runs :
           LET asked == SelectSeq(run[r].response.content, LAMBDA b : b.type = "tool_use")
               conv  == run[r].messages
               seen  == obs[r].plannerInput
           IN
           /\ pc[r] \in {"tools", "fetching", "exporting"} =>
                /\ run[r].k \in 1 .. Len(asked) + 1
                /\ Len(run[r].tool_results) = run[r].k - 1
                /\ \A i \in 1 .. run[r].k - 1 :
                     /\ run[r].tool_results[i].type = "tool_result"
                     /\ run[r].tool_results[i].tool_use_id = asked[i].id
                /\ conv[Len(conv)].kind = "tool_use"
                /\ obs[r].asked = [i \in 1 .. Len(asked) |-> asked[i].id]
                /\ seen = SubSeq(conv, 1, Len(conv) - 1)
           /\ \A i \in DOMAIN conv :
                (conv[i].kind = "tool_use" /\ conv[i].by = req[r].serial /\ i < Len(conv)) =>
                    /\ conv[i + 1].role = "user"
                    /\ conv[i + 1].kind = "tool_results"
           /\ obs[r].plannerCalls > 0 =>
                /\ seen[Len(seen)].role = "user"
                /\ (Len(seen) >= 2 /\ seen[Len(seen) - 1].kind = "tool_use") =>
                     seen[Len(seen)].kind = "tool_results"
           /\ (conv # <<>> /\ conv[Len(conv)].kind = "tool_results"
                 /\ conv[Len(conv)].by = req[r].serial) =>
                obs[r].answered = obs[r].asked)
    /\ [][\A r \in Runs :
            (Len(run'[r].messages) > Len(run[r].messages) /\ pc[r] = "tools") =>
                /\ Len(run'[r].messages) = Len(run[r].messages) + 1
                /\ run'[r].messages[Len(run'[r].messages)].kind = "tool_results"
                /\ Len(run[r].tool_results)
                     = Len(SelectSeq(run[r].response.content, LAMBDA b : b.type = "tool_use"))
                /\ obs'[r].answered
                     = [i \in DOMAIN run[r].tool_results |-> run[r].tool_results[i].tool_use_id]
                /\ obs'[r].plannerCalls = obs[r].plannerCalls
       ]_vars

\* The planner has been invoked again after a turn that asked for
\* search_listings and create_sheet, and was given both results.
C25_Witness ==
    \E r \in Runs :
        /\ obs[r].plannerCalls >= 2
        /\ obs[r].plannerInput[Len(obs[r].plannerInput)].kind = "tool_results"
        /\ obs[r].asked = <<"t1", "t2">>
        /\ obs[r].answered = <<"t1", "t2">>
        /\ obs[r].exported

\* C26: when the planner gave no final text (no end_turn, or an end_turn whose
\* last text is empty or missing) the summary is, in this order of priority:
\* with a non-empty sheet_url and num_results > 0 the "Found N listings ...
\* Google Sheet" message with the run's count and URL; else with a non-empty
\* last_error the message made of the count and that error; else the generic
\* no-listings message.  When the planner gave a non-empty final text the
\* summary is that text.
C26_SummaryPriority ==
    \A r \in Runs :
        (out[r].returned /\ obs[r].plannerCalls > 0) =>
            LET last  == run[r].messages[Len(run[r].messages)]
                final == IF last.role = "assistant" /\ last.kind = "end_turn"
                         THEN LastText(run[r].response.content, "")
                         ELSE ""
                st    == run[r].state
                sum   == out[r].result.summary
            IN
            IF final # ""
            THEN sum = [kind |-> "text", n |-> 0, loc |-> "", s |-> final]
            ELSE IF st.sheet_url # "" /\ st.num_results > 0
            THEN sum = [kind |-> "found", n |-> st.num_results,
                        loc |-> run[r].search.location, s |-> st.sheet_url]
            ELSE IF st.last_error # ""
            THEN sum = [kind |-> "failed", n |-> st.num_results,
                        loc |-> run[r].search.location, s |-> st.last_error]
            ELSE sum = [kind |-> "none", n |-> 0,
                        loc |-> run[r].search.location, s |-> ""]

\* A run with a sheet from its first export and an error from its second has
\* ended without final text and reports the sheet.
C26_Witness ==
    \E r \in Runs :
        /\ out[r].returned
        /\ run[r].final_summary = ""
        /\ run[r].state.sheet_url # ""
        /\ run[r].state.last_error # ""
        /\ out[r].result.summary.kind = "found"

\* C27: when a planner turn carries a stop signal that is neither end_turn nor
\* tool_use, the turn is still appended to the conversation, no tool is
\* executed for it (also when it holds tool_use blocks), the planner is not
\* invoked again in the run, and the run ends with the fallback summary made
\* from the run state.
C27_AnomalousStop ==
    /\ [](\A r \in Runs :
           (/\ run[r].messages # <<>>
            /\ run[r].messages[Len(run[r].messages)].role = "assistant"
            /\ run[r].messages[Len(run[r].messages)].kind \notin {"end_turn", "tool_use"})
           => /\ pc[r] = "done"
              /\ out[r].returned
              /\ run[r].messages[Len(run[r].messages)].by = req[r].serial
              /\ SessionGet(req[r].user_id) = run[r].messages
              /\ obs[r].plannerInput = SubSeq(run[r].messages, 1, Len(run[r].messages) - 1)
              /\ run[r].tool_results = <<>>
              /\ out[r].result.summary.kind \in {"found", "failed", "none"}
              /\ out[r].result.summary.kind = "found" =>
                   out[r].result.summary.s = run[r].state.sheet_url
              /\ out[r].result.summary.kind = "failed" =>
                   out[r].result.summary.s = run[r].state.last_error)
    /\ [][\A r \in Runs :
            (/\ run'[r].messages # run[r].messages
             /\ run'[r].messages # <<>>
             /\ run'[r].messages[Len(run'[r].messages)].role = "assistant"
             /\ run'[r].messages[Len(run'[r].messages)].kind \notin {"end_turn", "tool_use"})
            => /\ Len(run'[r].messages) = Len(run[r].messages) + 1
               /\ run'[r].state = run[r].state
               /\ obs'[r].fetched = obs[r].fetched
               /\ obs'[r].exported = obs[r].exported
               /\ last_search_time' = last_search_time
               /\ gateEvt' = gateEvt
               /\ obs'[r].plannerCalls = obs[r].plannerCalls + 1
               /\ pc'[r] = "done"
       ]_vars

\* After a search that stored 3 rows the planner stopped on max_tokens, with a
\* text and a tool_use block in its turn, and the run returned a fallback.
C27_Witness ==
    \E r \in Runs :
        /\ pc[r] = "done"
        /\ out[r].returned
        /\ run[r].response.stop_reason = "max_tokens"
        /\ Len(run[r].response.content) = 2
        /\ run[r].state.df = 3
        /\ obs[r].plannerCalls = 2

\* C28: the run state is never carried from one run to the next.  Every run,
\* and so a resume run that follows a run of the same user with a successful
\* search and export, enters its loop with no result set, an empty sheet_url,
\* num_results 0 and an empty last_error; whatever the run state holds later
\* was put there by this run's own tool calls, and create_sheet asked before
\* any successful search of the run answers error without calling
\* create_listings_sheet.
C28_RunStateFresh ==
    \A r \in Runs :
        LET st == run[r].state IN
        /\ (pc[r] = "loop" /\ obs[r].plannerCalls = 0) =>
             /\ st.df = NoneInt
             /\ st.sheet_url = ""
             /\ st.num_results = 0
             /\ st.last_error = ""
        /\ st.df # NoneInt => obs[r].fetched
        /\ st.num_results > 0 => obs[r].fetched /\ obs[r].returned.rows = st.num_results
        /\ st.sheet_url # "" => obs[r].exported
        /\ st.last_error # "" => obs[r].fetched
        /\ obs[r].exported => obs[r].fetched
        /\ (/\ pc[r] = "tools"
            /\ ~obs[r].fetched
            /\ run[r].k >= 2
            /\ Len(run[r].tool_results) = run[r].k - 1
            /\ run[r].response.content[run[r].k - 1].type = "tool_use"
            /\ run[r].response.content[run[r].k - 1].name = "create_sheet")
           => /\ run[r].tool_results[run[r].k - 1].content.status = "error"
              /\ ~obs[r].exported

\* In a resume run whose stored conversation holds a sheet made for the same
\* user, create_sheet was asked first and answered error; no collaborator was
\* called.
C28_Witness ==
    \E r \in Runs :
        /\ run[r].entry = "resume"
        /\ \E i \in DOMAIN run[r].prior :
             /\ run[r].prior[i].kind = "tool_results"
             /\ run[r].prior[i].sheet
        /\ pc[r] = "tools"
        /\ run[r].tool_results = <<[type |-> "tool_result", tool_use_id |-> "t1",
                                     content |-> NoDataOutcome]>>
        /\ ~obs[r].fetched
        /\ ~obs[r].exported
        /\ run[r].state.sheet_url = ""

\* C29: every search criteria record that parse_search_intent produces, or
\* that search_listings builds and hands to fetch_listings, has a listing type
\* from {for_sale, for_rent, sold}, whatever the model answered (also an
\* explicit null or an unknown value for listing_type).
C29_ListingTypeClosed ==
    \A r \in Runs :
        /\ obs[r].parsed =>
             run[r].search.listing_type \in {"for_sale", "for_rent", "sold"}
        /\ obs[r].fetched =>
             run[r].state.search.listing_type \in {"for_sale", "for_rent", "sold"}

\* C30: whenever the summary of a run is the generic fallback "No listings
\* found in <location> matching your criteria.", num_results of the
\* WorkflowResult is 0; a run whose search stored N > 0 rows and whose loop
\* ended before any export does not report that no listings were found.
C30_NoListingsMeansZero ==
    \A r \in Runs :
        (out[r].returned /\ out[r].result.summary.kind = "none") =>
            /\ out[r].result.num_results = 0
            /\ run[r].state.df \in {NoneInt, 0}

\* C31: in every WorkflowResult a non-empty sheet_url comes with
\* num_results > 0, the count of the result set the sheet was made from; after
\* any sequence of tool calls (such as search, export, then a second search
\* that finds nothing or fails) the result never pairs a sheet with a count
\* that belongs to another search.
C31_SheetHasItsCount ==
    \A r \in Runs :
        (out[r].returned /\ out[r].result.sheet_url # "") =>
            /\ out[r].result.num_results > 0
            /\ out[r].result.num_results = run[r].state.df

C33_StampOnlyOnPass ==
    [][/\ last_search_time' >= last_search_time
       /\ (last_search_time' # last_search_time)
            <=> \E r \in Runs :
                   /\ pc[r] = "tools"
                   /\ run[r].k <= Len(Calls(r))
                   /\ Call(r).name = "search_listings"
                   /\ pc'[r] = "fetching"
       /\ \A r \in Runs :
            (pc[r] = "fetching" /\ pc'[r] = "tools") =>
                last_search_time' = last_search_time
      ]_vars

\* A search that passed the gate raised in fetch_listings, and the cooldown it
\* started has refused the retry of the same run.
C33_Witness ==
    \E r \in Runs :
        /\ obs[r].fetched
        /\ obs[r].returned.rows = NoneInt
        /\ run[r].state.last_error = FetchError
        /\ pc[r] = "tools"
        /\ gateEvt.run = r
        /\ gateEvt.status = "rate_limited"
        /\ last_search_time = obs[r].stamped
        /\ last_search_time > 0

C36_OtherUsersKept ==
    [][\A t \in Threads :
          call'[t] # call[t] =>
              \A a \in SheetUsers \ {call[t].user_id} :
                  /\ a \in DOMAIN token_store =>
                         a \in DOMAIN token_store' /\ token_store'[a] = token_store[a]
                  /\ a \in DOMAIN device_store =>
                         a \in DOMAIN device_store' /\ device_store'[a] = device_store[a]]_vars

====
